---- MODULE Spec2Model ----
(***************************************************************************)
(* Model of connections/mysql_package.py: class Mysql.                     *)
(*                                                                         *)
(* SQL text is modelled as a sequence of lexical tokens (strings): the     *)
(* code builds statements by string concatenation and str.format, the      *)
(* model by concatenating and substituting token sequences.  White space   *)
(* between tokens is not modelled.                                         *)
(*                                                                         *)
(* Python values are tagged records [k, i, s]: k is the runtime type the   *)
(* isinstance chain of __single_line_parser dispatches on.                 *)
(***************************************************************************)
EXTENDS Integers, Sequences, FiniteSets, TLC

VARIABLES
    \* ---- statement templating (pure functions, specification SpecBuild)
    b_pc,       \* "input" | "sliced" | "built"
    b_op,       \* which public operation's template is used
    b_args,     \* *args of the call: a sequence of positional arguments
    b_kwargs,   \* **kwargs of the call: an ordered mapping
    b_size,     \* self.batch_size
    b_chunks,   \* what __batch_slice returned
    b_sqls,     \* what __multi_line_parser returned
    \* ---- one Mysql instance and its session (specification Spec)
    pc,          \* where the single caller thread is: "idle" between public
                 \* calls, "ping" | "reconnect" inside is_connected,
                 \* "exec" inside the cursor block of execute_sql
    op,          \* the public call in progress (at "idle": the last one)
    stage,       \* "columns": the information_schema query of
                 \* __multi_line_parser; "main": the operation's own execute_sql
    sql_arg,     \* execute_sql's argument, as a list of statements
    idx,         \* statements of sql_arg executed so far
    attempts,    \* pings made by the current is_connected
    probe,       \* outcome of the latest ping of the current is_connected
    select_flag, \* execute_sql's local
    result,      \* execute_sql's local
    rows,        \* what cursor.fetchall() would return
    con,         \* self.con: "open" | "closed"
    db_table,    \* the table as the session sees it (uncommitted work included)
    db_durable,  \* the committed table
    trace,       \* history: the session calls made by the current execute_sql
    ret,         \* what the last public call gave its caller
    fault,       \* history: the backend failed during the current public call
    rt           \* history: index of the keyword insert a select may read back

bvars == <<b_pc, b_op, b_args, b_kwargs, b_size, b_chunks, b_sqls>>
svars == <<pc, op, stage, sql_arg, idx, attempts, probe, select_flag, result, rows,
           con, db_table, db_durable, trace, ret, fault, rt>>
vars == <<bvars, svars>>

(***************************************************************************)
(* Bounds of the model.                                                    *)
(***************************************************************************)
MaxRows == 3      \* positional arguments per call
MaxSize == 3      \* largest batch_size tried
MaxTable == 2     \* rows the table may hold

(***************************************************************************)
(* Program constants.                                                      *)
(***************************************************************************)
RETRIES == 120          \* for i in range(120)
batch_size == 10000     \* __init__'s default

(***************************************************************************)
(* Values.                                                                 *)
(***************************************************************************)
IntV(n)   == [k |-> "int",   i |-> n, s |-> ""]
TextV(t)  == [k |-> "str",   i |-> 0, s |-> t]
BytesV(t) == [k |-> "bytes", i |-> 0, s |-> t]
NoneV     == [k |-> "None",  i |-> 0, s |-> ""]

Min(a, b) == IF a < b THEN a ELSE b

RECURSIVE Flatten(_)
Flatten(ss) == IF ss = <<>> THEN <<>> ELSE Head(ss) \o Flatten(Tail(ss))

SeqsUpTo(S, n) == UNION {[1..k -> S] : k \in 0..n}

(***************************************************************************)
(* An ordered mapping (dict, **kwargs): parallel sequences of distinct     *)
(* keys and of values.  A positional argument is a dict, a list or a       *)
(* scalar; t is its runtime type.                                          *)
(***************************************************************************)
Item(keys, vals) == [keys |-> keys, vals |-> vals]
EmptyItem == Item(<<>>, <<>>)

DictArg(keys, vals) == [t |-> "dict",   keys |-> keys, vals |-> vals]
ListArg(vals)       == [t |-> "list",   keys |-> <<>>, vals |-> vals]
ScalarArg(v)        == [t |-> "scalar", keys |-> <<>>, vals |-> <<v>>]

\* dict(zip(columns, values)): pairs up to the shorter of the two
\* (the column names of one table are distinct)
DictZip(columns, values) ==
    LET n == Min(Len(columns), Len(values))
    IN  Item(SubSeq(columns, 1, n), SubSeq(values, 1, n))

(***************************************************************************)
(* __is_select: 'SELECT' in sql.upper().  A token contains the word, in    *)
(* any case, iff it is one of these.                                       *)
(***************************************************************************)
SelectTokens ==
    {"SELECT * FROM", "select * from",
     "SELECT COLUMN_NAME FROM information_schema.COLUMNS WHERE table_name =",
     "'select'"}

is_select(sql) == \E j \in 1..Len(sql) : sql[j] \in SelectTokens

(***************************************************************************)
(* __batch_slice(s, step)                                                  *)
(***************************************************************************)
batch_slice(s, step) ==
    LET quotient == Len(s) \div step
    IN  IF quotient # 0
        THEN \* index runs over range(quotient) = 0..quotient-1; s[index:index+step]
             [j \in 1..quotient |->
                 LET index == j - 1
                 IN  SubSeq(s, index + 1, Min(index + step, Len(s)))]
        ELSE <<s>>

(***************************************************************************)
(* _multiple(sql, *args, **kwargs)                                        *)
(***************************************************************************)
IsPlaceholder(tok) == tok \in {"{columns}", "{values}"}

\* sql.replace('{', '({').replace('}', '})')
WrapBraces(sql) ==
    Flatten([j \in 1..Len(sql) |->
                IF IsPlaceholder(sql[j]) THEN <<"(", sql[j], ")">> ELSE <<sql[j]>>])

\* the braces are never wrapped
_multiple_never_wraps(sql, args, kwargs) == sql

_multiple(sql, args, kwargs) ==
    IF Len(kwargs.keys) > 1 \/ Len(args) > 1 THEN WrapBraces(sql) ELSE sql

(***************************************************************************)
(* __single_line_parser(sql, item)                                         *)
(***************************************************************************)
Serialize(value) ==
    IF value.k = "int" THEN <<ToString(value.i), ",">>
    ELSE IF value.k = "bytes"
         \* '%s,' % value is "b'..'," and [1:] drops the b
         THEN <<"'" \o value.s \o "'", ",">>
    ELSE IF value.k = "None" THEN <<"NULL", ",">>
    ELSE <<"'" \o value.s \o "'", ",">>

\* str.strip(','): leading and trailing commas removed
RECURSIVE StripLeft(_)
StripLeft(toks) ==
    IF toks # <<>> /\ Head(toks) = "," THEN StripLeft(Tail(toks)) ELSE toks

RECURSIVE StripRight(_)
StripRight(toks) ==
    IF toks # <<>> /\ toks[Len(toks)] = ","
    THEN StripRight(SubSeq(toks, 1, Len(toks) - 1))
    ELSE toks

Strip(toks) == StripRight(StripLeft(toks))

\* The column name between grave accents.  The grave accent is written ^
\* here: the parser of this language pairs a grave accent with a later
\* apostrophe, even inside strings.
BackQuote(name) == "^" \o name \o "^"

ColumnsFragment(item) ==
    Strip(Flatten([j \in 1..Len(item.keys) |-> <<BackQuote(item.keys[j]), ",">>]))

ValuesFragment(item) ==
    Strip(Flatten([j \in 1..Len(item.vals) |-> Serialize(item.vals[j])]))

\* sql.format(columns=columns, values=values)
Format(sql, columns, values) ==
    Flatten([j \in 1..Len(sql) |->
                IF sql[j] = "{columns}" THEN columns
                ELSE IF sql[j] = "{values}" THEN values
                ELSE <<sql[j]>>])

single_line_parser(sql, item) ==
    Format(sql, ColumnsFragment(item), ValuesFragment(item))

(***************************************************************************)
(* __multi_line_parser(table, sql, *args, **kwargs), given the column      *)
(* names its information_schema query returned.                            *)
(***************************************************************************)
AsItem(arg) == Item(arg.keys, arg.vals)

ChunkStatements(columns, sql, chunk) ==
    IF chunk[1].t = "dict"
    THEN [j \in 1..Len(chunk) |-> single_line_parser(sql, AsItem(chunk[j]))]
    ELSE IF chunk[1].t = "list"
    THEN [j \in 1..Len(chunk) |->
             single_line_parser(sql,
                 DictZip(SubSeq(columns, 1, Min(Len(chunk[j].vals), Len(columns))),
                         chunk[j].vals))]
    ELSE \* the chunk itself is one row of scalars
         <<single_line_parser(sql,
               DictZip(SubSeq(columns, 1, Min(Len(chunk), Len(columns))),
                       [j \in 1..Len(chunk) |-> chunk[j].vals[1]]))>>

multi_line_parser(columns, size, sql, args, kwargs) ==
    LET batch == batch_slice(args, size)
        fromArgs ==
            IF args # <<>>
            THEN Flatten([c \in 1..Len(batch) |-> ChunkStatements(columns, sql, batch[c])])
            ELSE <<>>
        fromKwargs ==
            IF kwargs.keys # <<>> THEN <<single_line_parser(sql, kwargs)>> ELSE <<>>
    IN  fromArgs \o fromKwargs

(***************************************************************************)
(* The statement templates of the public operations.                       *)
(***************************************************************************)
Table == "t"

InsertTemplate(table) ==
    <<"INSERT INTO", BackQuote(table), "{columns}", "VALUES", "{values}", ";">>
InsertIgnoreTemplate(table) ==
    <<"INSERT IGNORE INTO", BackQuote(table), "{columns}", "VALUES", "{values}", ";">>
ReplaceTemplate(table) ==
    <<"REPLACE INTO", BackQuote(table), "{columns}", "VALUES", "{values}", ";">>
DeleteTemplate(table) ==
    <<"DELETE FROM", BackQuote(table), "WHERE", "{columns}", "=", "{values}", ";">>
SelectAllTemplate(table) == <<"SELECT * FROM", table>>
SelectWhereTemplate(table) ==
    <<"SELECT * FROM", table, "WHERE", "{columns}", "=", "{values}">>
TruncateTemplate(table) == <<"TRUNCATE TABLE", table>>
ColumnsSql(table) ==
    <<"SELECT COLUMN_NAME FROM information_schema.COLUMNS WHERE table_name =",
      "'" \o table \o "'">>

TemplateOf(name, table) ==
    IF name = "insert" THEN InsertTemplate(table)
    ELSE IF name = "insert_ignore" THEN InsertIgnoreTemplate(table)
    ELSE IF name = "replace" THEN ReplaceTemplate(table)
    ELSE DeleteTemplate(table)

\* static = self._multiple(<template> % table, *args, **kwargs)
\* sql = self.__multi_line_parser(table, static, *args, **kwargs)
BuildStatements(name, columns, size, args, kwargs) ==
    multi_line_parser(columns, size, _multiple(TemplateOf(name, Table), args, kwargs),
                      args, kwargs)

(***************************************************************************)
(* Inputs.                                                                 *)
(***************************************************************************)
Columns == <<"id", "name">>     \* the columns of the table, in schema order

I1 == IntV(1)
I2 == IntV(2)
Ta == TextV("a")
Tb == TextV("b")

ListRows ==
    {ListArg(<<I1, Ta>>), ListArg(<<I2, Tb>>), ListArg(<<I1>>),
     ListArg(<<NoneV, BytesV("x")>>)}
DictRows ==
    {DictArg(<<"id", "name">>, <<I1, Ta>>), DictArg(<<"id">>, <<I2>>),
     DictArg(<<"name", "id">>, <<Tb, NoneV>>)}
ScalarArgs == {ScalarArg(I1), ScalarArg(Ta), ScalarArg(NoneV)}

\* the positional arguments of one call have one shape
ArgLists ==
    SeqsUpTo(ListRows, MaxRows) \cup SeqsUpTo(DictRows, MaxRows)
        \cup SeqsUpTo(ScalarArgs, MaxRows)

KwargsSet ==
    {EmptyItem, Item(<<"id">>, <<I1>>), Item(<<"id", "name">>, <<I1, Ta>>)}

BuildOps == {"insert", "insert_ignore", "replace", "delete"}

(***************************************************************************)
(* Return values of the public operations.                                 *)
(***************************************************************************)
RetNone       == [kind |-> "None",   n |-> 0, rows |-> <<>>, exc |-> ""]
RetFalse      == [kind |-> "False",  n |-> 0, rows |-> <<>>, exc |-> ""]
RetCount(n)   == [kind |-> "count",  n |-> n, rows |-> <<>>, exc |-> ""]
RetRows(rs)   == [kind |-> "rows",   n |-> 0, rows |-> rs,   exc |-> ""]
Raised(exc)   == [kind |-> "raised", n |-> 0, rows |-> <<>>, exc |-> exc]

NoCall == [name |-> "none", args |-> <<>>, kwargs |-> EmptyItem, sqls |-> <<>>]

BuildOff ==
    /\ b_pc = "off"
    /\ b_op = "insert"
    /\ b_args = <<>>
    /\ b_kwargs = EmptyItem
    /\ b_size = 1
    /\ b_chunks = <<>>
    /\ b_sqls = <<>>

SessionInit ==
    /\ pc = "idle"
    /\ op = NoCall
    /\ stage = "main"
    /\ sql_arg = <<>>
    /\ idx = 0
    /\ attempts = 0
    /\ probe = "none"
    /\ select_flag = FALSE
    /\ result = RetNone
    /\ rows = <<>>
    /\ con = "open"         \* __init__: self.con = self._connect(...)
    /\ db_table = <<>>
    /\ db_durable = <<>>
    /\ trace = <<>>
    /\ ret = RetNone
    /\ fault = FALSE
    /\ rt = 0

(***************************************************************************)
(* The backend behind cursor.execute: one table, whose rows are ordered    *)
(* mappings over Columns.  A statement is parsed token by token; a text    *)
(* the grammar rejects raises ProgrammingError in the driver.              *)
(***************************************************************************)
IntLiterals == 0..2
TextLiterals == {"a", "b", "x", "select"}

IsIntLiteral(tok) == \E n \in IntLiterals : ToString(n) = tok
IsTextLiteral(tok) == \E t \in TextLiterals : ("'" \o t \o "'") = tok
IsLiteral(tok) == tok = "NULL" \/ IsIntLiteral(tok) \/ IsTextLiteral(tok)

\* the value the backend stores for a literal
DBLiteral(tok) ==
    IF tok = "NULL" THEN NoneV
    ELSE IF IsIntLiteral(tok)
         THEN IntV(CHOOSE n \in IntLiterals : ToString(n) = tok)
    ELSE TextV(CHOOSE t \in TextLiterals : ("'" \o t \o "'") = tok)

IsColumnName(tok) == \E c \in 1..Len(Columns) : BackQuote(Columns[c]) = tok
ColumnIndex(tok) == CHOOSE c \in 1..Len(Columns) : BackQuote(Columns[c]) = tok

IndexOf(toks, tok) ==
    IF \E j \in 1..Len(toks) : toks[j] = tok
    THEN CHOOSE j \in 1..Len(toks) :
             toks[j] = tok /\ \A h \in 1..(j - 1) : toks[h] # tok
    ELSE 0

IsParenthesized(frag) ==
    Len(frag) >= 2 /\ frag[1] = "(" /\ frag[Len(frag)] = ")"

Inner(frag) == IF IsParenthesized(frag) THEN SubSeq(frag, 2, Len(frag) - 1) ELSE frag

\* a comma-separated list: x , x , x
IsCommaList(toks) ==
    /\ Len(toks) % 2 = 1
    /\ \A j \in 1..Len(toks) :
           IF j % 2 = 0 THEN toks[j] = "," ELSE toks[j] \notin {",", "(", ")"}

ListItems(toks) == [j \in 1..((Len(toks) + 1) \div 2) |-> toks[2 * j - 1]]

\* a column list against a value list: the same number of known, distinct
\* column names and of literals
ColumnsMatchValues(cols, vals) ==
    /\ Len(cols) = Len(vals)
    /\ \A j \in 1..Len(cols) : IsColumnName(cols[j]) /\ IsLiteral(vals[j])
    /\ \A j, h \in 1..Len(cols) : j # h => cols[j] # cols[h]

\* the row INSERT stores: the named columns, NULL elsewhere
RowOf(cols, vals) ==
    Item(Columns,
         [c \in 1..Len(Columns) |->
             IF \E j \in 1..Len(cols) : cols[j] = BackQuote(Columns[c])
             THEN DBLiteral(vals[CHOOSE j \in 1..Len(cols) : cols[j] = BackQuote(Columns[c])])
             ELSE NoneV])

\* col = literal, or (col, ..) = (literal, ..): NULL equals nothing
RowMatches(row, cols, vals) ==
    \A j \in 1..Len(cols) :
        /\ DBLiteral(vals[j]) # NoneV
        /\ row.vals[ColumnIndex(cols[j])] = DBLiteral(vals[j])

DBError == [ok |-> FALSE, tbl |-> <<>>, rows |-> <<>>, count |-> 0, ddl |-> FALSE]
DBDone(tbl, rs, count, ddl) ==
    [ok |-> TRUE, tbl |-> tbl, rows |-> rs, count |-> count, ddl |-> ddl]

\* WHERE <columns> = <values>: both sides bare single items, or both lists
\* in parentheses
WhereOk(cond) ==
    LET e == IndexOf(cond, "=")
        lhs == SubSeq(cond, 1, e - 1)
        rhs == SubSeq(cond, e + 1, Len(cond))
    IN  /\ e > 1
        /\ e < Len(cond)
        /\ IsParenthesized(lhs) = IsParenthesized(rhs)
        /\ IsCommaList(Inner(lhs))
        /\ IsCommaList(Inner(rhs))
        /\ IsParenthesized(lhs) \/ Len(lhs) = 1
        /\ ColumnsMatchValues(ListItems(Inner(lhs)), ListItems(Inner(rhs)))

WhereKeeps(cond, row) ==
    LET e == IndexOf(cond, "=")
    IN  RowMatches(row, ListItems(Inner(SubSeq(cond, 1, e - 1))),
                        ListItems(Inner(SubSeq(cond, e + 1, Len(cond)))))

DBInsert(stmt, tbl) ==
    LET v == IndexOf(stmt, "VALUES")
        colsFrag == SubSeq(stmt, 3, v - 1)
        valsFrag == SubSeq(stmt, v + 1, Len(stmt) - 1)
    IN  IF /\ Len(stmt) >= 6
           /\ stmt[2] = BackQuote(Table)
           /\ stmt[Len(stmt)] = ";"
           /\ v > 3
           /\ IsParenthesized(colsFrag)
           /\ IsParenthesized(valsFrag)
           /\ IsCommaList(Inner(colsFrag))
           /\ IsCommaList(Inner(valsFrag))
           /\ ColumnsMatchValues(ListItems(Inner(colsFrag)), ListItems(Inner(valsFrag)))
        THEN DBDone(Append(tbl, RowOf(ListItems(Inner(colsFrag)), ListItems(Inner(valsFrag)))),
                    <<>>, 1, FALSE)
        ELSE DBError

DBDelete(stmt, tbl) ==
    LET cond == SubSeq(stmt, 4, Len(stmt) - 1)
    IN  IF /\ Len(stmt) >= 7
           /\ stmt[2] = BackQuote(Table)
           /\ stmt[3] = "WHERE"
           /\ stmt[Len(stmt)] = ";"
           /\ WhereOk(cond)
        THEN LET kept == SelectSeq(tbl, LAMBDA row : ~WhereKeeps(cond, row))
             IN  DBDone(kept, <<>>, Len(tbl) - Len(kept), FALSE)
        ELSE DBError

DBSelect(stmt, tbl) ==
    IF Len(stmt) = 2 /\ stmt[2] = Table
    THEN DBDone(tbl, tbl, Len(tbl), FALSE)
    ELSE LET cond == SubSeq(stmt, 4, Len(stmt))
         IN  IF /\ Len(stmt) >= 6
                /\ stmt[2] = Table
                /\ stmt[3] = "WHERE"
                /\ WhereOk(cond)
             THEN LET found == SelectSeq(tbl, LAMBDA row : WhereKeeps(cond, row))
                  IN  DBDone(tbl, found, Len(found), FALSE)
             ELSE DBError

\* one row per column of the table, in schema order
ColumnRows == [c \in 1..Len(Columns) |-> Item(<<"COLUMN_NAME">>, <<TextV(Columns[c])>>)]

DBExecute(stmt, tbl) ==
    IF stmt = <<>> THEN DBError
    ELSE IF stmt[1] \in {"INSERT INTO", "INSERT IGNORE INTO", "REPLACE INTO"}
         THEN DBInsert(stmt, tbl)
    ELSE IF stmt[1] = "DELETE FROM" THEN DBDelete(stmt, tbl)
    ELSE IF stmt[1] \in {"SELECT * FROM", "select * from"} THEN DBSelect(stmt, tbl)
    ELSE IF stmt = TruncateTemplate(Table) THEN DBDone(<<>>, <<>>, 0, TRUE)
    ELSE IF stmt = ColumnsSql(Table) THEN DBDone(tbl, ColumnRows, Len(ColumnRows), FALSE)
    ELSE DBError

(***************************************************************************)
(* Specification SpecBuild: the templating functions applied to every      *)
(* input of the bounded sets.                                              *)
(***************************************************************************)
BuildInit ==
    /\ b_pc = "input"
    /\ b_op \in BuildOps
    /\ b_args \in ArgLists
    /\ b_kwargs \in KwargsSet
    /\ b_size \in 1..MaxSize
    /\ b_chunks = <<>>
    /\ b_sqls = <<>>
    /\ SessionInit

\* __multi_line_parser slices under "if args:"
Slice ==
    /\ b_pc = "input"
    /\ b_args # <<>>
    /\ b_chunks' = batch_slice(b_args, b_size)
    /\ b_pc' = "sliced"
    /\ UNCHANGED <<b_op, b_args, b_kwargs, b_size, b_sqls, svars>>

Build ==
    /\ b_pc = "input"
    /\ b_sqls' = BuildStatements(b_op, Columns, b_size, b_args, b_kwargs)
    /\ b_pc' = "built"
    /\ UNCHANGED <<b_op, b_args, b_kwargs, b_size, b_chunks, svars>>

BuildNext == Slice \/ Build

SpecBuild == BuildInit /\ [][BuildNext]_vars

(***************************************************************************)
(* Specification Spec: one Mysql instance used by one sequential caller.   *)
(* The backend answers each ping, connect, execute and commit as it        *)
(* likes.                                                                  *)
(***************************************************************************)
Call(name, args, kwargs) ==
    [name |-> name, args |-> args, kwargs |-> kwargs, sqls |-> <<>>]

\* keyword field sets the caller inserts; each names the key column id
InsertKw ==
    <<Item(<<"id", "name">>, <<I1, Ta>>),
      Item(<<"id">>, <<I1>>),
      Item(<<"id", "name">>, <<I2, NoneV>>)>>

KeyItem(kw) == Item(<<"id">>, <<kw.vals[1]>>)

BuildCalls ==
    {Call("insert", <<>>, InsertKw[j]) : j \in 1..Len(InsertKw)}
        \cup {Call("insert", <<ScalarArg(I1), ScalarArg(Ta)>>, EmptyItem),
              Call("delete", <<>>, Item(<<"id">>, <<I1>>)),
              Call("select", <<>>, EmptyItem),
              Call("select", <<>>, Item(<<"id">>, <<I1>>)),
              Call("select", <<>>, Item(<<"id">>, <<I2>>)),
              Call("select", <<DictArg(<<"id">>, <<I2>>)>>, EmptyItem)}

InsertOne ==
    single_line_parser(WrapBraces(InsertTemplate(Table)), InsertKw[1])
Malformed == <<"SELEKT">>

\* statement lists the caller hands to execute_sql itself
SqlLists ==
    {<<>>,
     <<SelectAllTemplate(Table)>>,
     <<InsertOne>>,
     <<InsertOne, SelectAllTemplate(Table)>>,
     <<SelectAllTemplate(Table), InsertOne>>,
     <<InsertOne, Malformed>>,
     <<<<"select * from", Table>>, TruncateTemplate(Table)>>}

\* rows a call may add to the table
Inserts(c) ==
    IF c.name = "insert"
    THEN (IF c.args # <<>> THEN 1 ELSE 0) + (IF c.kwargs.keys # <<>> THEN 1 ELSE 0)
    ELSE Len(SelectSeq(c.sqls, LAMBDA st : st = InsertOne))

\* one iteration too many
RangeHasNextOffByOne(i) == i <= RETRIES

\* for i in range(120): another iteration is due
RangeHasNext(i) == i < RETRIES

LeaveFrame ==
    /\ sql_arg' = sql_arg
    /\ idx' = 0
    /\ attempts' = 0
    /\ probe' = "none"
    /\ select_flag' = FALSE
    /\ result' = RetNone
    /\ rows' = <<>>

\* the public operation hands v to its caller, or raises
ReturnToCaller(v, tr) ==
    /\ pc' = "idle"
    /\ stage' = "main"
    /\ ret' = v
    /\ trace' = tr
    /\ LeaveFrame

\* execute_sql(stmts) up to its first call on the session: is_connected's ping
StartExecute(stg, stmts) ==
    /\ pc' = "ping"
    /\ stage' = stg
    /\ sql_arg' = stmts
    /\ idx' = 0
    /\ attempts' = 0
    /\ probe' = "none"
    /\ select_flag' = FALSE
    /\ result' = RetNone
    /\ rows' = <<>>
    /\ trace' = <<>>
    /\ ret' = RetNone

\* the template insert, delete and select hand to __multi_line_parser
Static(c) ==
    IF c.name = "select"
    THEN IF c.args # <<>> \/ c.kwargs.keys # <<>>
         THEN _multiple(SelectWhereTemplate(Table), c.args, c.kwargs)
         ELSE SelectAllTemplate(Table)
    ELSE _multiple(TemplateOf(c.name, Table), c.args, c.kwargs)

\* what follows __multi_line_parser in the public operation:
\* select takes sql[0], the others pass the list on
AfterParser(c, stmts, tr) ==
    IF c.name = "select"
    THEN IF stmts = <<>>
         THEN ReturnToCaller(Raised("IndexError"), tr)
         ELSE StartExecute("main", <<stmts[1]>>)
    ELSE StartExecute("main", stmts)

\* columns = [i['COLUMN_NAME'] for i in self.execute_sql(columns_sql)]
AfterColumns(c, v, tr) ==
    IF v.kind # "rows"
    THEN ReturnToCaller(Raised("TypeError"), tr)
    ELSE AfterParser(c,
             multi_line_parser([j \in 1..Len(v.rows) |-> v.rows[j].vals[1].s],
                               batch_size, Static(c), c.args, c.kwargs),
             tr)

\* execute_sql returns v
Finish(v, tr) ==
    IF stage = "columns" THEN AfterColumns(op, v, tr) ELSE ReturnToCaller(v, tr)

\* the table holds no row with kw's id, committed or not
NoRowWithKey(kw) ==
    /\ \A j \in 1..Len(db_table) : db_table[j].vals[1] # kw.vals[1]
    /\ \A j \in 1..Len(db_durable) : db_durable[j].vals[1] # kw.vals[1]

\* insert, delete, select
CallOp(c) ==
    /\ pc = "idle"
    /\ Len(db_table) + Inserts(c) <= MaxTable
    /\ op' = c
    /\ fault' = FALSE
    /\ rt' = IF c.name = "insert" /\ c.args = <<>>
                /\ \E j \in 1..Len(InsertKw) : InsertKw[j] = c.kwargs /\ NoRowWithKey(c.kwargs)
             THEN CHOOSE j \in 1..Len(InsertKw) : InsertKw[j] = c.kwargs
             ELSE IF c.name = "select" /\ c.args = <<>> /\ rt # 0
                     /\ c.kwargs = KeyItem(InsertKw[rt])
             THEN rt
             ELSE 0
    /\ IF c.args # <<>>
       THEN StartExecute("columns", <<ColumnsSql(Table)>>)
       ELSE AfterParser(c, multi_line_parser(<<>>, batch_size, Static(c), c.args, c.kwargs),
                        <<>>)
    /\ UNCHANGED <<con, db_table, db_durable, bvars>>

CallExecuteSql(stmts) ==
    /\ pc = "idle"
    /\ op' = [name |-> "execute_sql", args |-> <<>>, kwargs |-> EmptyItem, sqls |-> stmts]
    /\ Len(db_table) + Inserts(op') <= MaxTable
    /\ fault' = FALSE
    /\ rt' = 0
    /\ StartExecute("main", stmts)
    /\ UNCHANGED <<con, db_table, db_durable, bvars>>

CallTruncate ==
    /\ pc = "idle"
    /\ op' = Call("truncate", <<>>, EmptyItem)
    /\ fault' = FALSE
    /\ rt' = 0
    /\ StartExecute("main", <<TruncateTemplate(Table)>>)
    /\ UNCHANGED <<con, db_table, db_durable, bvars>>

\* close(): a second close raises in the driver and is caught
CallClose ==
    /\ pc = "idle"
    /\ op' = Call("close", <<>>, EmptyItem)
    /\ fault' = FALSE
    /\ rt' = 0
    /\ con' = "closed"
    /\ db_table' = db_durable
    /\ ReturnToCaller(RetNone, <<>>)
    /\ UNCHANGED <<db_durable, bvars>>

(***************************************************************************)
(* is_connected                                                            *)
(***************************************************************************)
\* self.con.ping(reconnect=True) returns: break.  The driver may have
\* opened a new session, which has none of the uncommitted work.
PingOk ==
    /\ pc = "ping"
    /\ RangeHasNext(attempts)
    /\ attempts' = attempts + 1
    /\ probe' = "ok"
    /\ pc' = "exec"
    /\ con' = "open"
    /\ \E renewed \in BOOLEAN :
           db_table' = IF renewed \/ con = "closed" THEN db_durable ELSE db_table
    /\ UNCHANGED <<op, stage, sql_arg, idx, select_flag, result, rows, db_durable,
                   trace, ret, fault, rt, bvars>>

\* the ping raises: the except clauses print, and the loop body goes on
PingFail ==
    /\ pc = "ping"
    /\ RangeHasNext(attempts)
    /\ attempts' = attempts + 1
    /\ probe' = "failed"
    /\ pc' = "reconnect"
    /\ con' = "closed"
    /\ db_table' = db_durable
    /\ fault' = TRUE
    /\ rt' = 0
    /\ UNCHANGED <<op, stage, sql_arg, idx, select_flag, result, rows, db_durable,
                   trace, ret, bvars>>

\* self.close(); self.con = self._connect(..); time.sleep(1)
ReconnectOk ==
    /\ pc = "reconnect"
    /\ con' = "open"
    /\ db_table' = db_durable
    /\ pc' = "ping"
    /\ UNCHANGED <<op, stage, sql_arg, idx, attempts, probe, select_flag, result, rows,
                   db_durable, trace, ret, fault, rt, bvars>>

\* self.close(); self._connect(..) raises, outside every try
ReconnectRaise ==
    /\ pc = "reconnect"
    /\ ReturnToCaller(Raised("OperationalError"), trace)
    /\ UNCHANGED <<op, con, db_table, db_durable, fault, rt, bvars>>

\* the for loop's else: logger.error, and is_connected returns
Exhausted ==
    /\ pc = "ping"
    /\ ~RangeHasNext(attempts)
    /\ pc' = "exec"
    /\ UNCHANGED <<op, stage, sql_arg, idx, attempts, probe, select_flag, result, rows,
                   con, db_table, db_durable, trace, ret, fault, rt, bvars>>

(***************************************************************************)
(* execute_sql, after is_connected                                         *)
(***************************************************************************)
Executed(r) == [ev |-> "execute", ok |-> r.ok, count |-> r.count, rows |-> r.rows]
Committed == [ev |-> "commit", ok |-> TRUE, count |-> 0, rows |-> <<>>]
CommitRaised == [ev |-> "commit", ok |-> FALSE, count |-> 0, rows |-> <<>>]

\* select_flag, once set by a SELECT, stays set
ExecOkStickyFlag ==
    /\ pc = "exec"
    /\ idx < Len(sql_arg)
    /\ LET r == DBExecute(sql_arg[idx + 1], db_table)
       IN  /\ r.ok
           /\ idx' = idx + 1
           /\ select_flag' = (select_flag \/ is_select(sql_arg[idx + 1]))
           /\ result' = RetCount(r.count)
           /\ rows' = r.rows
           /\ db_table' = r.tbl
           /\ db_durable' = IF r.ddl THEN r.tbl ELSE db_durable
           /\ trace' = Append(trace, Executed(r))
    /\ UNCHANGED <<pc, op, stage, sql_arg, attempts, probe, con, ret, fault, rt, bvars>>

\* self.con.commit() inside the loop, after each statement
ExecOkCommitEach ==
    /\ pc = "exec"
    /\ idx < Len(sql_arg)
    /\ LET r == DBExecute(sql_arg[idx + 1], db_table)
       IN  /\ r.ok
           /\ idx' = idx + 1
           /\ select_flag' = is_select(sql_arg[idx + 1])
           /\ result' = RetCount(r.count)
           /\ rows' = r.rows
           /\ db_table' = r.tbl
           /\ db_durable' = r.tbl
           /\ trace' = trace \o <<Executed(r), Committed>>
    /\ UNCHANGED <<pc, op, stage, sql_arg, attempts, probe, con, ret, fault, rt, bvars>>

\* select_flag = self.__is_select(i); result = cursor.execute(i)
ExecOk ==
    /\ pc = "exec"
    /\ idx < Len(sql_arg)
    /\ LET r == DBExecute(sql_arg[idx + 1], db_table)
       IN  /\ r.ok
           /\ idx' = idx + 1
           /\ select_flag' = is_select(sql_arg[idx + 1])
           /\ result' = RetCount(r.count)
           /\ rows' = r.rows
           /\ db_table' = r.tbl
           /\ db_durable' = IF r.ddl THEN r.tbl ELSE db_durable
           /\ trace' = Append(trace, Executed(r))
    /\ UNCHANGED <<pc, op, stage, sql_arg, attempts, probe, con, ret, fault, rt, bvars>>

\* the backend rejects the statement: except Exception, return False
ExecRejected ==
    /\ pc = "exec"
    /\ idx < Len(sql_arg)
    /\ ~DBExecute(sql_arg[idx + 1], db_table).ok
    /\ Finish(RetFalse, Append(trace, Executed(DBError)))
    /\ UNCHANGED <<op, con, db_table, db_durable, fault, rt, bvars>>

\* the session fails under the statement (InternalError, OperationalError):
\* either except clause, return False
ExecFault ==
    /\ pc = "exec"
    /\ idx < Len(sql_arg)
    /\ fault' = TRUE
    /\ rt' = 0
    /\ Finish(RetFalse, Append(trace, Executed(DBError)))
    /\ UNCHANGED <<op, con, db_table, db_durable, bvars>>

\* self.con.commit(); return cursor.fetchall() if select_flag else result
CommitOk ==
    /\ pc = "exec"
    /\ idx = Len(sql_arg)
    /\ db_durable' = db_table
    /\ Finish(IF select_flag THEN RetRows(rows) ELSE result, Append(trace, Committed))
    /\ UNCHANGED <<op, con, db_table, fault, rt, bvars>>

\* self.con.commit() raises: except, return False
CommitFail ==
    /\ pc = "exec"
    /\ idx = Len(sql_arg)
    /\ fault' = TRUE
    /\ rt' = 0
    /\ Finish(RetFalse, Append(trace, CommitRaised))
    /\ UNCHANGED <<op, con, db_table, db_durable, bvars>>

is_connected == PingOk \/ PingFail \/ ReconnectOk \/ ReconnectRaise \/ Exhausted

execute_sql == ExecOk \/ ExecRejected \/ ExecFault \/ CommitOk \/ CommitFail

Init == BuildOff /\ SessionInit

Next ==
    \/ \E c \in BuildCalls : CallOp(c)
    \/ \E stmts \in SqlLists : CallExecuteSql(stmts)
    \/ CallTruncate
    \/ CallClose
    \/ is_connected
    \/ execute_sql

Spec == Init /\ [][Next]_vars

\* the ping, close and connect calls of is_connected are blocking calls that
\* return or raise (the driver's connect timeout), and sleep(1) returns: the
\* caller thread is not stopped inside is_connected
FairSpec == Spec /\ WF_vars(is_connected)

(***************************************************************************)
(*                              Properties                                 *)
(***************************************************************************)
InGuard == pc \in {"ping", "reconnect"}

\* C1: no exception crosses the public operation boundary: whatever the
\* arguments and whatever the session does, a public call returns normally.
C1_NoExceptionCrossesBoundary == ret.kind # "raised"

\* C2: is_connected makes at most 120 pings, and once entered it always
\* hands control back (to execute_sql, or to the caller by raising), also
\* when every ping fails.
C2_ReconnectLoopBounded ==
    /\ [](attempts <= RETRIES)
    /\ [](InGuard => <>(~InGuard))

\* C2 witness: all 120 pings of one is_connected failed and it returned.
C2_AllPingsFailed == pc = "exec" /\ attempts = RETRIES /\ probe = "failed"

Ceil(a, b) == (a + b - 1) \div b

\* C3: __batch_slice(rows, size) returns ceil(len(rows)/size) chunks, each of
\* at most size rows, whose concatenation is rows.
C3_SliceIsPartition ==
    b_pc = "sliced" =>
        /\ Len(b_chunks) = Ceil(Len(b_args), b_size)
        /\ \A c \in 1..Len(b_chunks) : Len(b_chunks[c]) <= b_size
        /\ Flatten(b_chunks) = b_args

\* the literal the specification gives a value: integers bare, NULL, text
\* and binary in quotes
SqlLiteral(v) ==
    IF v.k = "int" THEN ToString(v.i)
    ELSE IF v.k = "None" THEN "NULL"
    ELSE "'" \o v.s \o "'"

IsName(tok) == tok \notin {",", "(", ")"}

Separator(stmt) ==
    IF IndexOf(stmt, "VALUES") # 0 THEN IndexOf(stmt, "VALUES") ELSE IndexOf(stmt, "=")

\* the column names and the values a built statement holds (every template
\* of BuildOps ends with a semicolon)
StatementColumns(stmt) ==
    LET start == IF IndexOf(stmt, "WHERE") # 0 THEN IndexOf(stmt, "WHERE") + 1 ELSE 3
    IN  SelectSeq(SubSeq(stmt, start, Separator(stmt) - 1), IsName)

StatementValues(stmt) ==
    SelectSeq(SubSeq(stmt, Separator(stmt) + 1, Len(stmt) - 1), IsName)

\* the rows the caller supplied, each as its values: one per dict or list
\* argument, one for a tuple of scalars, one for the keyword fields
GivenRows(args, kwargs) ==
    (IF args = <<>> THEN <<>>
     ELSE IF args[1].t = "scalar" THEN <<[j \in 1..Len(args) |-> args[j].vals[1]]>>
     ELSE [j \in 1..Len(args) |-> args[j].vals])
    \o (IF kwargs.keys # <<>> THEN <<kwargs.vals>> ELSE <<>>)

Supported(args) ==
    /\ \A j \in 1..Len(args) : args[j].t = "list" => Len(args[j].vals) <= Len(Columns)
    /\ (args # <<>> /\ args[1].t = "scalar") => Len(args) <= Len(Columns)

\* C4: for every supported shape and every batch_size the builder gives one
\* statement per supplied row, in order, each with as many column names as
\* values, and as many values as the caller gave for that row.
C4_OneStatementPerRow ==
    (b_pc = "built" /\ Supported(b_args)) =>
        LET given == GivenRows(b_args, b_kwargs)
        IN  /\ Len(b_sqls) = Len(given)
            /\ \A j \in 1..Len(given) :
                   /\ Len(StatementColumns(b_sqls[j])) = Len(StatementValues(b_sqls[j]))
                   /\ StatementValues(b_sqls[j]) =
                          [h \in 1..Len(given[j]) |-> SqlLiteral(given[j][h])]

MultiRowInsert ==
    /\ b_pc = "built"
    /\ b_op = "insert"
    /\ b_kwargs = EmptyItem
    /\ Len(b_args) > 1
    /\ \A j \in 1..Len(b_args) : b_args[j].t = "list"

RECURSIVE CommaJoin(_)
CommaJoin(toks) ==
    IF Len(toks) <= 1 THEN toks
    ELSE <<Head(toks), ",">> \o CommaJoin(Tail(toks))

InParens(toks) == <<"(">> \o toks \o <<")">>

ValueTuple(vals) == InParens(CommaJoin([h \in 1..Len(vals) |-> SqlLiteral(vals[h])]))

ColumnList(n) == InParens(CommaJoin([h \in 1..n |-> BackQuote(Columns[h])]))

\* INSERT INTO t (c1, ..) VALUES (row 1), (row 2), ..;
MultiRowStatement(args) ==
    <<"INSERT INTO", BackQuote(Table)>> \o ColumnList(Len(args[1].vals)) \o <<"VALUES">>
        \o Flatten([j \in 1..(2 * Len(args) - 1) |->
                       IF j % 2 = 1 THEN ValueTuple(args[(j + 1) \div 2].vals) ELSE <<",">>])
        \o <<";">>

\* INSERT INTO t (c1, ..) VALUES (row);
OneRowStatement(arg) ==
    <<"INSERT INTO", BackQuote(Table)>> \o ColumnList(Len(arg.vals)) \o <<"VALUES">>
        \o ValueTuple(arg.vals) \o <<";">>

\* C5 as stated: insert(table, row1, .., rowN), N > 1 list rows, gives the
\* executor one statement, its VALUES clause holding one tuple per row.
C5_SingleMultiRowStatement ==
    MultiRowInsert => b_sqls = <<MultiRowStatement(b_args)>>

\* C5 amended: insert(table, row1, .., rowN), N > 1 list rows, gives the
\* executor one statement per row of the chunks __batch_slice returns (for
\* N < batch_size: N statements, in the order of the rows); each has its
\* column list in parentheses once and a VALUES clause of one parenthesized
\* tuple, the values of its row.
C5_OneParenthesizedStatementPerKeptRow ==
    MultiRowInsert =>
        LET kept == Flatten(batch_slice(b_args, b_size))
        IN  /\ b_sqls = [j \in 1..Len(kept) |-> OneRowStatement(kept[j])]
            /\ Len(b_args) < b_size => Len(b_sqls) = Len(b_args)
            /\ Len(b_args) < b_size =>
                   \A j \in 1..Len(b_args) : b_sqls[j] = OneRowStatement(b_args[j])

\* C5 witness: insert('t', [1,'a'], [2,'b']) built its two statements.
C5_TwoListRowsBuilt ==
    /\ MultiRowInsert
    /\ b_args = <<ListArg(<<I1, Ta>>), ListArg(<<I2, Tb>>)>>
    /\ b_size > 2
    /\ Len(b_sqls) = 2

\* C6: select(table) with no predicate, the session answering, returns all
\* rows of the table, each once.
C6_SelectAllReturnsEveryRow ==
    (pc = "idle" /\ op.name = "select" /\ op.args = <<>> /\ op.kwargs = EmptyItem
        /\ ~fault)
    => (ret.kind = "rows" /\ ret.rows = db_table)

\* C7: insert(t, **fields) into a table holding no row with that id, then
\* select(t, id=..), the session answering both: exactly one row comes back,
\* and it holds the fields written.
C7_InsertSelectRoundTrip ==
    (pc = "idle" /\ op.name = "select" /\ rt # 0 /\ ~fault) =>
        /\ ret.kind = "rows"
        /\ Len(ret.rows) = 1
        /\ \A h \in 1..Len(InsertKw[rt].keys) :
               \E c \in 1..Len(ret.rows[1].keys) :
                   /\ ret.rows[1].keys[c] = InsertKw[rt].keys[h]
                   /\ ret.rows[1].vals[c] = InsertKw[rt].vals[h]

\* the caller's execute_sql(list) has returned, every statement having run
\* and the commit having succeeded
ListRan ==
    /\ pc = "idle"
    /\ op.name = "execute_sql"
    /\ Len(trace) = Len(op.sqls) + 1
    /\ \A j \in 1..Len(op.sqls) : trace[j].ev = "execute" /\ trace[j].ok
    /\ trace[Len(trace)] = Committed

\* C8 as stated: if any statement of the list is a SELECT, the call returns
\* that SELECT's rows; otherwise the affected-row count of the last one.
C8_AnySelectReturnsItsRows ==
    (ListRan /\ op.sqls # <<>>) =>
        IF \E j \in 1..Len(op.sqls) : is_select(op.sqls[j])
        THEN \E j \in 1..Len(op.sqls) :
                 is_select(op.sqls[j]) /\ ret = RetRows(trace[j].rows)
        ELSE ret = RetCount(trace[Len(op.sqls)].count)

\* C8 amended: the last statement alone decides: if it contains SELECT the
\* call returns the rows fetched for the last statement, otherwise the
\* last statement's affected-row count; None for an empty list.
C8_LastStatementDecides ==
    ListRan =>
        LET n == Len(op.sqls)
        IN  ret = IF n = 0 THEN RetNone
                  ELSE IF is_select(op.sqls[n]) THEN RetRows(trace[n].rows)
                  ELSE RetCount(trace[n].count)

\* C8 witness: [SELECT, INSERT] ran and the call returned the insert's count.
C8_SelectThenInsertReturned ==
    /\ ListRan
    /\ op.sqls = <<SelectAllTemplate(Table), InsertOne>>
    /\ ret = RetCount(1)

\* C9: execute_sql calls commit at most once, and only after every statement
\* of its list has run; the call that returns False at statement k rolls
\* nothing back, so what statements 1..k-1 did stays on the session.
C9_CommitOnceAfterAllNoRollback ==
    /\ [](\A j \in 1..Len(trace) :
              /\ trace[j].ev \in {"execute", "commit"}
              /\ trace[j].ev = "commit" =>
                     /\ j = Len(trace)
                     /\ j = Len(sql_arg) + 1
                     /\ \A h \in 1..(j - 1) : trace[h].ev = "execute" /\ trace[h].ok)
    /\ [][(pc = "exec" /\ pc' = "idle" /\ ret' = RetFalse)
             => (db_table' = db_table /\ db_durable' = db_durable)]_vars

\* C9 witness: statement 2 of 2 was rejected, the call returned False, and
\* statement 1's row is still on the session, uncommitted.
C9_SecondStatementFailed ==
    /\ pc = "idle"
    /\ ret = RetFalse
    /\ ~fault
    /\ Len(trace) = 2
    /\ trace[1].ev = "execute" /\ trace[1].ok
    /\ trace[2].ev = "execute" /\ ~trace[2].ok
    /\ Len(db_table) = Len(db_durable) + 1

\* C10: execute_sql opens its cursor and runs statements only when the
\* latest ping of its is_connected succeeded.
C10_ExecuteOnlyAfterSuccessfulProbe == pc = "exec" => probe = "ok"

====
